---- MODULE Spec2Model ----
(***************************************************************************)
(* Model of the KIS order pipeline: the shared KISClient (token cache and  *)
(* gateway operations of app/kis_client.py) and the request handlers of    *)
(* app/main.py that run as concurrent asyncio tasks over it.               *)
(*                                                                         *)
(* A handler runs atomically between two suspension points; the only       *)
(* suspension points are the HTTP calls to the brokerage (client.post and  *)
(* client.get), so one action is either the start of a handler up to its   *)
(* first HTTP call, or the arrival of a response up to the next HTTP call. *)
(*                                                                         *)
(* Time is counted in hours.  Money is counted in thousandths of the       *)
(* currency unit (exact arithmetic stands for the float arithmetic of the  *)
(* code), so that rounding to two decimals is rounding to a multiple of 10.*)
(***************************************************************************)
EXTENDS Integers, Sequences, FiniteSets, TLC

VARIABLES client, tasks, net, now, ticks, started, stored, resp

vars == <<client, tasks, net, now, ticks, started, stored, resp>>

----------------------------------------------------------------------------
(* Bounds of the model *)

NReq == 2
NExec == 1
MaxTokenCalls == 3
MaxPreviews == 1
MaxExecutes == 1
MaxTicks == 1
MaxItems == 2
MaxQuotes == 2
MaxWeights == 1
MaxOrderCalls == 1
MaxRepeats == 1
MaxRequests == 2

Req == 1..NReq

(* The tasks that take execute requests *)
ExecReq == 1..NExec

----------------------------------------------------------------------------
(* Values *)

None == "None"

DatetimeMin == 0

StartTime == 1

Keys == {"K1"}

Secrets == {"S1"}

Modes == {"real", "virtual"}

Strategies == {"short", "long"}

GatewayTokens == {"T1", "T2"}

Truthy(s) == s # None /\ s # ""

TtlHours(strategy) == IF strategy = "short" THEN 24 ELSE 24 * 90

TickSet(strategy) == {1, TtlHours(strategy) - 1}

NoRet == [access_token |-> None, expires_at |-> -1]

----------------------------------------------------------------------------
(* KISClient.__init__ *)

KISClientInit(mock, strategy) ==
    [appkey |-> "K0", appsecret |-> "S0", mode |-> "virtual", mock |-> mock,
     token |-> None, expires |-> DatetimeMin, token_strategy |-> strategy]

NoReq ==
    [total_cash |-> 0, results |-> <<>>, items |-> <<>>, symbol |-> <<>>,
     initial_buy_ratio |-> 0, discount_rate |-> 0]

NoBody ==
    [items |-> <<>>, total_cash_needed |-> 0, results |-> <<>>, prices |-> <<>>,
     mode |-> "None"]

(* The exception a gateway operation raised: httpx.HTTPStatusError carries *)
(* the upstream response (its status stands for status and body); an       *)
(* exception raised locally (ValueError, IndexError) has no status.        *)
NoErr == [op |-> "none", status |-> 0]

HTTPStatusError(op, status) == [op |-> op, status |-> status]

LocalError(name) == [op |-> name, status |-> 0]

(* The frame of a handler: its request, its locals, the return of its last *)
(* get_access_token call (ret; how it was obtained in how, the pairs       *)
(* stored earlier and unexpired at that call in prior), the order_cash     *)
(* calls it has made (calls), the exception it caught (err) and, once it   *)
(* has returned, its response body.                                        *)
IdleTask ==
    [kind |-> "none", pc |-> "idle", req |-> NoReq, now0 |-> 0, ret |-> NoRet,
     how |-> "none", changed |-> FALSE, prior |-> {}, err |-> NoErr,
     i |-> 1, price |-> 0, items |-> <<>>, total_needed |-> 0,
     tranche |-> "market", calls |-> <<>>, results |-> <<>>, body |-> NoBody]

NetInit == [token |-> 0, quote |-> 0, order |-> 0]

Init ==
    /\ \E mock \in BOOLEAN, strategy \in Strategies :
           client = KISClientInit(mock, strategy)
    /\ tasks = [r \in Req |-> IdleTask]
    /\ net = NetInit
    /\ now = StartTime
    /\ ticks = 0
    /\ started = [token |-> 0, preview |-> 0, execute |-> 0, quote |-> 0,
                  weights |-> 0, order |-> 0, repeat |-> 0]
    /\ stored = {}
    /\ resp = IdleTask

----------------------------------------------------------------------------
(* A world is what one step of a handler reads and writes: the shared      *)
(* client, the running task's own frame, the requests sent so far and the  *)
(* record of the pairs the cache has held.                                 *)

World(t) == [client |-> client, task |-> t, net |-> net, stored |-> stored]

Pair(c) == [access_token |-> c.token, expires_at |-> c.expires]

(* A variant without the one-hour margin. *)
StoreTokenNoMargin(c, token, now0) ==
    [c EXCEPT !.token = token,
              !.expires = now0 + TtlHours(c.token_strategy)]

(* get_access_token, lines 42-46 and 57-60: the token is stored with the   *)
(* expiry computed from the time read at the start of the call.            *)
StoreToken(c, token, now0) ==
    [c EXCEPT !.token = token,
              !.expires = now0 + (TtlHours(c.token_strategy) - 1)]

(* get_access_token up to its return or to the await of the credential      *)
(* exchange.  The task's pc is left as it was when the call returned       *)
(* without suspending, and is "await_token" when the exchange was sent.    *)
GetAccessToken(w, appkey, appsecret) ==
    LET c1 == IF Truthy(appkey) THEN [w.client EXCEPT !.appkey = appkey] ELSE w.client
        c2 == IF Truthy(appsecret) THEN [c1 EXCEPT !.appsecret = appsecret] ELSE c1
        t == now
        tk == [w.task EXCEPT !.now0 = t,
                             !.prior = {p \in w.stored : t < p.expires_at}]
    IN  IF Truthy(c2.token) /\ t < c2.expires
        THEN [w EXCEPT !.client = c2,
                       !.task = [tk EXCEPT !.ret = Pair(c2), !.how = "hit"]]
        ELSE IF c2.mock
        THEN LET c3 == StoreToken(c2, "MOCK_TOKEN", t)
             IN  [w EXCEPT !.client = c3,
                           !.task = [tk EXCEPT !.ret = Pair(c3), !.how = "mock"],
                           !.stored = @ \cup {Pair(c3)}]
        ELSE [w EXCEPT !.client = c2,
                       !.task = [tk EXCEPT !.pc = "await_token", !.how = "exchange"],
                       !.net = [@ EXCEPT !.token = @ + 1]]

(* A variant that stores what the exchange answered before it looks at the *)
(* status.                                                                 *)
TokenAnsweredStoresFirst(w, status, token) ==
    LET c3 == StoreToken(w.client, token, w.task.now0)
    IN  IF status # 200
        THEN [w EXCEPT !.client = c3,
                       !.task = [@ EXCEPT !.pc = "raised",
                                          !.err = HTTPStatusError("token", status)]]
        ELSE [w EXCEPT !.client = c3,
                       !.task = [@ EXCEPT !.pc = "returned", !.ret = Pair(c3)],
                       !.stored = @ \cup {Pair(c3)}]

(* The credential exchange answered: lines 53-60.  status is the HTTP       *)
(* status, token the access_token of the body (None when it has none).     *)
TokenAnswered(w, status, token) ==
    IF status # 200
    THEN [w EXCEPT !.task = [@ EXCEPT !.pc = "raised",
                                      !.err = HTTPStatusError("token", status)]]
    ELSE LET c3 == StoreToken(w.client, token, w.task.now0)
         IN  [w EXCEPT !.client = c3,
                       !.task = [@ EXCEPT !.pc = "returned", !.ret = Pair(c3)],
                       !.stored = @ \cup {Pair(c3)}]

Finished(t) == t.pc \in {"done", "failed", "rejected"}

(* The step of task r ends in world w.  A handler that has returned or     *)
(* raised hands its response to the caller (resp holds the last response)  *)
(* and its frame is gone.                                                  *)
(* What the caller gets, with the request it answers and the order_cash   *)
(* calls the handler made; the token endpoint returns the pair ret.       *)
Response(t) ==
    IF t.kind = "token"
    THEN [IdleTask EXCEPT !.kind = t.kind, !.pc = t.pc, !.ret = t.ret, !.how = t.how,
                          !.changed = t.changed, !.prior = t.prior, !.err = t.err]
    ELSE [IdleTask EXCEPT !.kind = t.kind, !.pc = t.pc, !.req = t.req,
                          !.calls = t.calls, !.body = t.body, !.err = t.err]

Commit(r, w) ==
    /\ client' = w.client
    /\ net' = w.net
    /\ stored' = w.stored
    /\ IF Finished(w.task)
       THEN /\ resp' = Response(w.task)
            /\ tasks' = [tasks EXCEPT ![r] = IdleTask]
       ELSE /\ resp' = resp
            /\ tasks' = [tasks EXCEPT ![r] = w.task]

MaxStarts ==
    [token |-> MaxTokenCalls, preview |-> MaxPreviews, execute |-> MaxExecutes,
     quote |-> MaxQuotes, weights |-> MaxWeights, order |-> MaxOrderCalls,
     repeat |-> MaxRepeats]

(* Task r takes a request of this kind: the tasks are interchangeable, and  *)
(* a request is taken by the first free one.                               *)
Start(r, kind) ==
    /\ tasks[r].pc = "idle"
    /\ \A q \in Req : q < r => tasks[q].pc # "idle"
    /\ started[kind] < MaxStarts[kind]
    /\ started' = [started EXCEPT ![kind] = @ + 1]

----------------------------------------------------------------------------
(* POST /api/kis/token *)

ApiTokenReturn(w) ==
    IF Truthy(w.task.ret.access_token)
    THEN [w EXCEPT !.task = [@ EXCEPT !.pc = "done"]]
    ELSE [w EXCEPT !.task = [@ EXCEPT !.pc = "failed"]]

ApiTokenResume(w) ==
    IF w.task.pc = "raised" THEN [w EXCEPT !.task = [@ EXCEPT !.pc = "failed"]]
    ELSE IF w.task.pc = "await_token" THEN w
    ELSE ApiTokenReturn(w)

(* api_token on a request whose fields are drawn from the given sets *)
ApiTokenWith(r, modes, appkeys, appsecrets) ==
    /\ Start(r, "token")
    /\ \E mode \in modes, appkey \in appkeys, appsecret \in appsecrets :
          LET c1 == IF Truthy(mode) THEN [client EXCEPT !.mode = mode] ELSE client
              t0 == [IdleTask EXCEPT
                        !.kind = "token", !.pc = "running",
                        !.changed = \/ (Truthy(mode) /\ mode # client.mode)
                                    \/ (Truthy(appkey) /\ appkey # client.appkey)
                                    \/ (Truthy(appsecret) /\ appsecret # client.appsecret)]
              w0 == [World(t0) EXCEPT !.client = c1]
          IN  Commit(r, ApiTokenResume(GetAccessToken(w0, appkey, appsecret)))
    /\ UNCHANGED <<now, ticks>>

(* The values of the optional fields of a TokenRequest *)
OptionalModes == Modes \cup {None}

OptionalKeys == Keys \cup {None}

OptionalSecrets == Secrets \cup {None}

Unset == {None}

ApiToken(r) == ApiTokenWith(r, OptionalModes, OptionalKeys, OptionalSecrets)

(* POST /api/kis/token with at most a mode *)
ApiTokenMode(r) == ApiTokenWith(r, OptionalModes, Unset, Unset)

(* POST /api/kis/token {}: no field is given *)
ApiTokenPlain(r) == ApiTokenWith(r, Unset, Unset, Unset)

----------------------------------------------------------------------------
(* Money: a float x of the code is the integer Mills * x.                  *)

Mills == 1000

(* math.floor(a / b), b # 0 *)
Floor(a, b) == IF b > 0 THEN a \div b ELSE (0 - a) \div (0 - b)

(* round(x, 2): the nearest multiple of 0.01, a tie going to the even one  *)
Round2(x) ==
    LET lo == Floor(x, 10) * 10
        rem == x - lo
    IN  IF rem < 5 THEN lo
        ELSE IF rem > 5 THEN lo + 10
        ELSE IF (lo \div 10) % 2 = 0 THEN lo ELSE lo + 10

----------------------------------------------------------------------------
(* Symbols are strings, modelled as sequences of characters.               *)

Digits == <<"0", "1", "2", "3", "4", "5", "6", "7", "8", "9">>

IsDigit(ch) == \E d \in 1..10 : Digits[d] = ch

DigitVal(ch) == (CHOOSE d \in 1..10 : Digits[d] = ch) - 1

(* symbol[-2:] *)
Last2(symbol) ==
    IF Len(symbol) <= 2 THEN symbol ELSE SubSeq(symbol, Len(symbol) - 1, Len(symbol))

(* int(s) succeeds on a non-empty string of digits *)
IntOk(s) == Len(s) > 0 /\ \A k \in 1..Len(s) : IsDigit(s[k])

RECURSIVE ParseInt(_)
ParseInt(s) ==
    IF s = <<>> THEN 0 ELSE 10 * ParseInt(SubSeq(s, 1, Len(s) - 1)) + DigitVal(s[Len(s)])

Samsung == <<"0", "0", "5", "9", "3", "0">>

Letters == <<"A", "A", "A">>

----------------------------------------------------------------------------
(* inquire_daily_price *)

(* The body of a quote response: output2 may be absent, and an element may *)
(* lack stck_clpr.                                                         *)
QuoteElem(price) ==
    [has_clpr |-> TRUE, stck_oprc |-> price, stck_hgpr |-> price,
     stck_lwpr |-> price, stck_clpr |-> price, acml_vol |-> 0]

EmptyElem ==
    [has_clpr |-> FALSE, stck_oprc |-> 0, stck_hgpr |-> 0,
     stck_lwpr |-> 0, stck_clpr |-> 0, acml_vol |-> 0]

QuoteBody(output2) == [has_output2 |-> TRUE, output2 |-> output2]

NoOutput2 == [has_output2 |-> FALSE, output2 |-> <<>>]

(* A variant that derives the price from the last character alone. *)
MockPriceLastDigit(symbol) ==
    (50000 + ParseInt(SubSeq(symbol, Len(symbol), Len(symbol))) * 10) * Mills

(* lines 81-95: the synthesized quote of mock mode *)
MockPrice(symbol) == (50000 + ParseInt(Last2(symbol)) * 10) * Mills

MockQuote(symbol) == QuoteBody(<<QuoteElem(MockPrice(symbol))>>)

(* float(data.get("output2", [{}])[0].get("stck_clpr", 0)); indexing an    *)
(* empty list raises IndexError                                            *)
ClosePrice(data) ==
    LET list == IF data.has_output2 THEN data.output2 ELSE <<EmptyElem>>
    IN  IF list = <<>> THEN [ok |-> FALSE, price |-> 0]
        ELSE [ok |-> TRUE,
              price |-> IF list[1].has_clpr THEN list[1].stck_clpr ELSE 0]

Fail(w) == [w EXCEPT !.task = [@ EXCEPT !.pc = "failed"]]

(* The handler catches the exception e and answers with an error. *)
Caught(w, e) == Fail([w EXCEPT !.task = [@ EXCEPT !.err = e]])

(* headers_for has returned: the frame of its get_access_token call is     *)
(* gone.                                                                   *)
HeadersBuilt(k) ==
    [k EXCEPT !.now0 = IdleTask.now0, !.ret = IdleTask.ret, !.how = IdleTask.how,
              !.prior = IdleTask.prior]

(* lines 96-100 in live mode: headers_for calls get_access_token, then the *)
(* GET is sent.                                                            *)
QuoteSend(w) ==
    [w EXCEPT !.net = [@ EXCEPT !.quote = @ + 1],
              !.task = [HeadersBuilt(@) EXCEPT !.pc = "await_quote"]]

InquireLive(w) ==
    LET w1 == GetAccessToken(w, None, None)
    IN  IF w1.task.pc = "await_token" THEN w1 ELSE QuoteSend(w1)

----------------------------------------------------------------------------
(* POST /api/orders/preview *)

(* lines 99-114: one allocation result r sized at the quoted price *)
PreviewItem(r, price) ==
    LET qty_market == IF price # 0 THEN Floor(r.initial_buy_cash, price) ELSE 0
        qty_limit == IF r.limit_price_hint # 0
                     THEN Floor(r.dca_cash, r.limit_price_hint) ELSE 0
        cash == qty_market * price + qty_limit * r.limit_price_hint
    IN  [symbol |-> r.symbol, weight |-> r.weight, price |-> price,
         qty_market |-> qty_market, qty_limit |-> qty_limit,
         limit_price |-> r.limit_price_hint, cash |-> cash,
         cash_needed |-> Round2(cash)]

PreviewAppend(w, price) ==
    LET k == w.task
        it == PreviewItem(k.req.results[k.i], price)
    IN  [w EXCEPT !.task = [k EXCEPT !.price = price,
                                     !.total_needed = @ + it.cash,
                                     !.items = Append(@, it),
                                     !.i = @ + 1]]

(* A variant that places an order for every item it returns. *)
PreviewReturnPlacesOrders(w) ==
    [w EXCEPT !.net = [@ EXCEPT !.order = @ + Len(w.task.items)],
              !.task = [@ EXCEPT
        !.pc = "done",
        !.body = [NoBody EXCEPT !.items = w.task.items,
                                !.total_cash_needed = Round2(w.task.total_needed)]]]

(* line 115 *)
PreviewReturn(w) ==
    [w EXCEPT !.task = [@ EXCEPT
        !.pc = "done",
        !.body = [NoBody EXCEPT !.items = w.task.items,
                                !.total_cash_needed = Round2(w.task.total_needed)]]]

(* The loop of lines 94-114 from item i up to the next HTTP call. *)
RECURSIVE PreviewLoop(_)
PreviewLoop(w) ==
    LET k == w.task
    IN  IF k.i > Len(k.req.results) THEN PreviewReturn(w)
        ELSE IF w.client.mock
        THEN IF IntOk(Last2(k.req.results[k.i].symbol))
             THEN PreviewLoop(
                      PreviewAppend(w, ClosePrice(MockQuote(k.req.results[k.i].symbol)).price))
             ELSE Caught(w, LocalError("ValueError"))
        ELSE InquireLive(w)

PreviewQuoted(w, status, data) ==
    IF status # 200 THEN Caught(w, HTTPStatusError("quote", status))
    ELSE IF ~ClosePrice(data).ok THEN Caught(w, LocalError("IndexError"))
    ELSE PreviewLoop(PreviewAppend(w, ClosePrice(data).price))

Symbols == {Samsung, Letters}

Weights == {Mills \div 2}

InitialBuyCash == {6, 120000 * Mills}

DcaCash == {0, 6}

LimitPriceHints == {0 - 4, 0, 6}

TotalCash == {10, 300000 * Mills}

WeightResult ==
    [symbol : Symbols, weight : Weights, initial_buy_cash : InitialBuyCash,
     dca_cash : DcaCash, limit_price_hint : LimitPriceHints]

SeqsUpTo(S, n) == UNION {[1..m -> S] : m \in 0..n}

(* order_preview on a request drawn from the given sets *)
OrderPreviewWith(r, totals, lists) ==
    /\ Start(r, "preview")
    /\ \E total_cash \in totals, results \in lists :
          LET t0 == [IdleTask EXCEPT
                        !.kind = "preview", !.pc = "running",
                        !.req = [NoReq EXCEPT !.total_cash = total_cash,
                                              !.results = results]]
          IN  Commit(r, PreviewLoop(World(t0)))
    /\ UNCHANGED <<now, ticks>>

WeightResults == SeqsUpTo(WeightResult, MaxItems)

OrderPreview(r) == OrderPreviewWith(r, TotalCash, WeightResults)

(* A few preview requests: no result, one result, one result with a        *)
(* negative limit price hint, and two results the second of which has a    *)
(* symbol that is not a number.                                            *)
SampleTotalCash == {300000 * Mills}

SampleResult(symbol) ==
    [symbol |-> symbol, weight |-> Mills \div 2, initial_buy_cash |-> 120000 * Mills,
     dca_cash |-> 6, limit_price_hint |-> 6]

NegativeHint == [SampleResult(Samsung) EXCEPT !.limit_price_hint = 0 - 4]

SampleWeightResults ==
    {<<>>, <<SampleResult(Samsung)>>, <<NegativeHint>>,
     <<SampleResult(Samsung), SampleResult(Letters)>>}

OrderPreviewSample(r) == OrderPreviewWith(r, SampleTotalCash, SampleWeightResults)

----------------------------------------------------------------------------
(* GET /api/quotes/daily *)

Hynix == <<"0", "0", "0", "6", "6", "0">>

Seven == <<"7">>

QuoteSymbols == {Samsung, Hynix, Seven, Letters}

(* lines 63-70: one element of output2 as an OHLCV *)
OHLCV(item) ==
    [open |-> item.stck_oprc, high |-> item.stck_hgpr, low |-> item.stck_lwpr,
     close |-> item.stck_clpr, volume |-> item.acml_vol]

(* lines 62-73: float(None) of a missing field raises TypeError, outside   *)
(* the try of the handler.                                                 *)
QuotesDailyReturn(w, data) ==
    LET list == IF data.has_output2 THEN data.output2 ELSE <<>>
    IN  IF \E j \in 1..Len(list) : ~list[j].has_clpr
        THEN Caught(w, LocalError("TypeError"))
        ELSE [w EXCEPT !.task = [@ EXCEPT
                 !.pc = "done",
                 !.body = [NoBody EXCEPT
                              !.prices = [j \in 1..Len(list) |-> OHLCV(list[j])]]]]

QuotesDailyQuoted(w, status, data) ==
    IF status # 200 THEN Caught(w, HTTPStatusError("quote", status))
    ELSE QuotesDailyReturn(w, data)

(* quotes_daily on a symbol drawn from the given set *)
QuotesDailyWith(r, symbols) ==
    /\ Start(r, "quote")
    /\ \E symbol \in symbols :
          LET t0 == [IdleTask EXCEPT !.kind = "quote", !.pc = "running",
                                     !.req = [NoReq EXCEPT !.symbol = symbol]]
              w0 == World(t0)
          IN  Commit(r, IF client.mock
                        THEN IF IntOk(Last2(symbol))
                             THEN QuotesDailyReturn(w0, MockQuote(symbol))
                             ELSE Caught(w0, LocalError("ValueError"))
                        ELSE InquireLive(w0))
    /\ UNCHANGED <<now, ticks>>

QuotesDaily(r) == QuotesDailyWith(r, QuoteSymbols)

QuotesDailySample(r) == QuotesDailyWith(r, Symbols)

----------------------------------------------------------------------------
(* POST /api/portfolio/weights *)

(* calculate_weights: its input checks, as section 4.3 of the design       *)
(* states them.  The allocation it returns is not modelled.                *)
CalculateWeightsAccepts(req) ==
    /\ req.total_cash > 0
    /\ req.items # <<>>
    /\ 0 < req.initial_buy_ratio /\ req.initial_buy_ratio < Mills
    /\ 0 <= req.discount_rate /\ req.discount_rate < Mills

(* lines 86-87 *)
WeightsReturn(w) ==
    IF CalculateWeightsAccepts(w.task.req)
    THEN [w EXCEPT !.task = [@ EXCEPT !.pc = "done"]]
    ELSE [w EXCEPT !.task = [@ EXCEPT !.pc = "rejected",
                                      !.err = LocalError("ValidationError")]]

(* lines 84-85: prices[item.symbol] = price *)
WeightsPriced(w, price) ==
    LET k == w.task
    IN  [w EXCEPT !.task = [k EXCEPT
            !.price = price,
            !.results = Append(@, [symbol |-> k.req.items[k.i].symbol, price |-> price]),
            !.i = @ + 1]]

(* The loop of lines 79-85 from item i up to the next HTTP call. *)
RECURSIVE WeightsLoop(_)
WeightsLoop(w) ==
    LET k == w.task
    IN  IF k.i > Len(k.req.items) THEN WeightsReturn(w)
        ELSE IF w.client.mock
        THEN IF IntOk(Last2(k.req.items[k.i].symbol))
             THEN WeightsLoop(
                      WeightsPriced(w, ClosePrice(MockQuote(k.req.items[k.i].symbol)).price))
             ELSE Caught(w, LocalError("ValueError"))
        ELSE InquireLive(w)

WeightsQuoted(w, status, data) ==
    IF status # 200 THEN Caught(w, HTTPStatusError("quote", status))
    ELSE IF ~ClosePrice(data).ok THEN Caught(w, LocalError("IndexError"))
    ELSE WeightsLoop(WeightsPriced(w, ClosePrice(data).price))

PortfolioItem == [symbol : Symbols, reason : {"reason"}]

PortfolioItems == SeqsUpTo(PortfolioItem, MaxItems)

WeightsTotalCash == {0, 1000 * Mills}

InitialBuyRatios == {Mills \div 2, 3 * (Mills \div 2)}

DiscountRates == {30, Mills}

WeightsRequest(total_cash, items, ratio, rate) ==
    [NoReq EXCEPT !.total_cash = total_cash, !.items = items,
                  !.initial_buy_ratio = ratio, !.discount_rate = rate]

WeightsRequests ==
    {WeightsRequest(total_cash, items, ratio, rate) :
        total_cash \in WeightsTotalCash, items \in PortfolioItems,
        ratio \in InitialBuyRatios, rate \in DiscountRates}

(* A few weights requests: a valid one, one with initial_buy_ratio 1.5,    *)
(* one without items and one with total_cash 0.                            *)
SamplePortfolio == <<[symbol |-> Samsung, reason |-> "reason"]>>

SampleWeightsRequests ==
    {WeightsRequest(1000 * Mills, SamplePortfolio, Mills \div 2, 30),
     WeightsRequest(1000 * Mills, SamplePortfolio, 3 * (Mills \div 2), 30),
     WeightsRequest(1000 * Mills, <<>>, Mills \div 2, 30),
     WeightsRequest(0, SamplePortfolio, Mills \div 2, 30)}

(* portfolio_weights on a request drawn from the given set.                *)
(* WeightsRequest.total_cash is declared gt=0 (schemas.py line 45): the    *)
(* framework rejects the request before the handler runs.                  *)
PortfolioWeightsWith(r, requests) ==
    /\ Start(r, "weights")
    /\ \E req \in requests :
          LET total_cash == req.total_cash
              t0 == [IdleTask EXCEPT
                        !.kind = "weights", !.pc = "running", !.req = req]
          IN  Commit(r, IF total_cash > 0
                        THEN WeightsLoop(World(t0))
                        ELSE [World(t0) EXCEPT !.task = [@ EXCEPT
                                 !.pc = "rejected",
                                 !.err = LocalError("ValidationError")]])
    /\ UNCHANGED <<now, ticks>>

PortfolioWeights(r) == PortfolioWeightsWith(r, WeightsRequests)

PortfolioWeightsSample(r) == PortfolioWeightsWith(r, SampleWeightsRequests)

----------------------------------------------------------------------------
(* GET /api/health *)

Health(r) ==
    /\ tasks[r].pc = "idle"
    /\ resp' = [IdleTask EXCEPT !.kind = "health", !.pc = "done",
                                !.body = [NoBody EXCEPT !.mode = client.mode]]
    /\ UNCHANGED <<client, tasks, net, now, ticks, started, stored>>

----------------------------------------------------------------------------
(* The quote GET answers a suspended inquire_daily_price, and the handler  *)
(* that called it goes on.                                                 *)

QuoteResume(w, status, data) ==
    IF w.task.kind = "preview" THEN PreviewQuoted(w, status, data)
    ELSE IF w.task.kind = "weights" THEN WeightsQuoted(w, status, data)
    ELSE QuotesDailyQuoted(w, status, data)

ClosePrices == {0, 6}

QuoteBodies ==
    {NoOutput2, QuoteBody(<<>>)} \cup {QuoteBody(<<QuoteElem(p)>>) : p \in ClosePrices}

QuoteResponse(r) ==
    /\ tasks[r].pc = "await_quote"
    /\ \E status \in {200, 500}, data \in QuoteBodies :
          /\ (status # 200 => data = NoOutput2)
          /\ Commit(r, QuoteResume(World(tasks[r]), status, data))
    /\ UNCHANGED <<now, ticks, started>>

----------------------------------------------------------------------------
(* order_cash *)

(* A variant with the codes of the two sides exchanged. *)
TrIdSidesExchanged(mode, side) ==
    LET tr_base == IF mode = "real" THEN "TTTC" ELSE "VTTC"
    IN  IF side = "buy" THEN <<tr_base, "0801U">> ELSE <<tr_base, "0802U">>

(* lines 107-108 *)
TrId(mode, side) ==
    LET tr_base == IF mode = "real" THEN "TTTC" ELSE "VTTC"
    IN  IF side = "buy" THEN <<tr_base, "0802U">> ELSE <<tr_base, "0801U">>

(* The ORD_UNPR of an order: the literal "0" of a market order, or the     *)
(* str() of the float limit price.                                         *)
Literal0 == <<"0">>

Str(x) == <<"float", x>>

(* str(qty) of the int quantity *)
StrInt(n) == <<"int", n>>

(* lines 109-118 *)
OrderBody(pdno, qty, price, ord_dvsn) ==
    [CANO |-> "cano", ACNT_PRDT_CD |-> "acnt", PDNO |-> pdno, ORD_DVSN |-> ord_dvsn,
     ORD_QTY |-> StrInt(qty), ORD_UNPR |-> price, CMA_EVLU_AMT_ICLD_YN |-> "N",
     OVRS_ICLD_YN |-> "N"]

NoOrderBody == OrderBody(<<>>, 0, Literal0, "")

(* The answer of the brokerage to an order is opaque. *)
Ack == [mock |-> FALSE, tr_id |-> <<>>, body |-> NoOrderBody]

OrderSend(w) ==
    [w EXCEPT !.net = [@ EXCEPT !.order = @ + 1],
              !.task = [HeadersBuilt(@) EXCEPT !.pc = "await_order"]]

(* A variant without the mock branch of lines 119-120. *)
OrderCashSubmitsInMock(w, pdno, qty, price, side, ord_dvsn) ==
    LET tr_id == TrId(w.client.mode, side)
        call == [pdno |-> pdno, qty |-> qty, price |-> price, side |-> side,
                 ord_dvsn |-> ord_dvsn, mode |-> w.client.mode, tr_id |-> tr_id,
                 state |-> "pending", response |-> Ack]
        w1 == [w EXCEPT !.task = [@ EXCEPT !.calls = Append(@, call)]]
        w2 == GetAccessToken(w1, None, None)
    IN  IF w2.task.pc = "await_token" THEN w2 ELSE OrderSend(w2)

(* order_cash up to its return (mock mode) or to its first HTTP call.  The *)
(* call is recorded in the frame's calls, with the response once it has    *)
(* returned ("pending" before, "raised" when it raised).                   *)
OrderCash(w, pdno, qty, price, side, ord_dvsn) ==
    LET tr_id == TrId(w.client.mode, side)
        body == OrderBody(pdno, qty, price, ord_dvsn)
        call == [pdno |-> pdno, qty |-> qty, price |-> price, side |-> side,
                 ord_dvsn |-> ord_dvsn, mode |-> w.client.mode, tr_id |-> tr_id,
                 state |-> "pending",
                 response |-> Ack]
        w1 == [w EXCEPT !.task = [@ EXCEPT !.calls = Append(@, call)]]
    IN  IF w.client.mock
        THEN [w1 EXCEPT !.task = [@ EXCEPT
                 !.calls = [@ EXCEPT ![Len(@)] =
                     [@ EXCEPT !.state = "returned",
                               !.response = [mock |-> TRUE, tr_id |-> tr_id,
                                             body |-> body]]]]]
        ELSE LET w2 == GetAccessToken(w1, None, None)
             IN  IF w2.task.pc = "await_token" THEN w2 ELSE OrderSend(w2)

(* A variant that sends the order once more when the answer is not 200. *)
OrderAnsweredRetries(w, status) ==
    IF status # 200
    THEN [w EXCEPT !.net = [@ EXCEPT !.order = @ + 1],
                   !.task = [@ EXCEPT !.pc = "await_order"]]
    ELSE [w EXCEPT !.task = [@ EXCEPT
             !.pc = "running",
             !.calls = [@ EXCEPT ![Len(@)] = [@ EXCEPT !.state = "returned"]]]]

(* lines 125-128: the order POST answered *)
OrderAnswered(w, status) ==
    [w EXCEPT !.task = [@ EXCEPT
        !.pc = "running",
        !.err = IF status = 200 THEN @ ELSE HTTPStatusError("order", status),
        !.calls = [@ EXCEPT ![Len(@)] =
            [@ EXCEPT !.state = IF status = 200 THEN "returned" ELSE "raised"]]]]

----------------------------------------------------------------------------
(* POST /api/orders/execute *)

LastCall(k) == k.calls[Len(k.calls)]

(* A variant that goes on to the next item after the market tranche. *)
ExecuteAppendSkipsLimit(w) ==
    LET k == w.task
        item == k.req.items[k.i]
    IN  [w EXCEPT !.task = [k EXCEPT
            !.results = Append(@, [symbol |-> item.symbol,
                                   order_type |-> k.tranche,
                                   qty |-> IF k.tranche = "market"
                                           THEN item.qty_market ELSE item.qty_limit,
                                   price |-> IF k.tranche = "market"
                                             THEN 0 ELSE item.limit_price,
                                   response |-> k.calls[Len(k.calls)].response]),
            !.tranche = "market",
            !.i = @ + 1]]

(* lines 127-135 and 144-152: the result of the tranche whose order_cash   *)
(* has returned, and on to the next tranche.                               *)
ExecuteAppend(w) ==
    LET k == w.task
        item == k.req.items[k.i]
    IN  IF k.tranche = "market"
        THEN [w EXCEPT !.task = [k EXCEPT
                 !.results = Append(@, [symbol |-> item.symbol, order_type |-> "market",
                                        qty |-> item.qty_market, price |-> 0,
                                        response |-> LastCall(k).response]),
                 !.tranche = "limit"]]
        ELSE [w EXCEPT !.task = [k EXCEPT
                 !.results = Append(@, [symbol |-> item.symbol, order_type |-> "limit",
                                        qty |-> item.qty_limit, price |-> item.limit_price,
                                        response |-> LastCall(k).response]),
                 !.tranche = "market",
                 !.i = @ + 1]]

ExecuteSkip(w) ==
    IF w.task.tranche = "market"
    THEN [w EXCEPT !.task = [@ EXCEPT !.tranche = "limit"]]
    ELSE [w EXCEPT !.task = [@ EXCEPT !.tranche = "market", !.i = @ + 1]]

ExecuteReturn(w) ==
    [w EXCEPT !.task = [@ EXCEPT
        !.pc = "done", !.body = [NoBody EXCEPT !.results = w.task.results]]]

RECURSIVE ExecuteLoop(_)

(* A variant that swallows the exception and goes on with the next item. *)
ExecuteContinue(w) ==
    ExecuteLoop([w EXCEPT !.task = [@ EXCEPT !.pc = "running", !.tranche = "market",
                                             !.i = @ + 1]])

(* except Exception: raise HTTPException, lines 153-154 *)
ExecuteRaise(w) == Fail(w)

(* A variant that remembers that orders were sent before and returns      *)
(* without submitting when a new execute begins after them.                *)
ExecuteLoopDedup(w) ==
    LET k == w.task
    IN  IF k.i > Len(k.req.items) THEN ExecuteReturn(w)
        ELSE IF w.net.order > 0 /\ k.calls = <<>> THEN ExecuteReturn(w)
        ELSE LET item == k.req.items[k.i]
                 qty == IF k.tranche = "market" THEN item.qty_market ELSE item.qty_limit
                 w1 == IF k.tranche = "market"
                       THEN OrderCash(w, item.symbol, item.qty_market, Literal0, "buy", "01")
                       ELSE OrderCash(w, item.symbol, item.qty_limit,
                                      Str(item.limit_price), "buy", "00")
             IN  IF qty > 0
                 THEN IF w1.task.pc \in {"await_token", "await_order"} THEN w1
                      ELSE ExecuteLoop(ExecuteAppend(w1))
                 ELSE ExecuteLoop(ExecuteSkip(w))

(* The loop of lines 121-154 from the current tranche of item i up to the  *)
(* next HTTP call.                                                         *)
ExecuteLoop(w) ==
    LET k == w.task
    IN  IF k.i > Len(k.req.items) THEN ExecuteReturn(w)
        ELSE LET item == k.req.items[k.i]
                 qty == IF k.tranche = "market" THEN item.qty_market ELSE item.qty_limit
                 w1 == IF k.tranche = "market"
                       THEN OrderCash(w, item.symbol, item.qty_market, Literal0, "buy", "01")
                       ELSE OrderCash(w, item.symbol, item.qty_limit,
                                      Str(item.limit_price), "buy", "00")
             IN  IF qty > 0
                 THEN IF w1.task.pc \in {"await_token", "await_order"} THEN w1
                      ELSE ExecuteLoop(ExecuteAppend(w1))
                 ELSE ExecuteLoop(ExecuteSkip(w))

ExecuteOrdered(w, status) ==
    LET w1 == OrderAnswered(w, status)
    IN  IF status # 200 THEN ExecuteRaise(w1) ELSE ExecuteLoop(ExecuteAppend(w1))

MarketQtys == {0, 2}

LimitQtys == {0 - 1, 3}

LimitPrices == {6}

OrderPreviewItem ==
    [symbol : {Samsung}, weight : Weights, price : {6}, qty_market : MarketQtys,
     qty_limit : LimitQtys, limit_price : LimitPrices, cash_needed : {0}]

(* order_execute on a request drawn from the given set *)
OrderExecuteWith(r, lists) ==
    /\ Start(r, "execute")
    /\ \E items \in lists :
          LET t0 == [IdleTask EXCEPT
                        !.kind = "execute", !.pc = "running",
                        !.req = [NoReq EXCEPT !.items = items]]
          IN  Commit(r, ExecuteLoop(World(t0)))
    /\ UNCHANGED <<now, ticks>>

OrderPreviewItems == SeqsUpTo(OrderPreviewItem, MaxItems)

OrderExecute(r) == OrderExecuteWith(r, OrderPreviewItems)

(* A few execute requests: one item with no tranche to submit, one item    *)
(* with both tranches, and two items the second of which has no market     *)
(* tranche.                                                                *)
SampleItem(qty_market, qty_limit) ==
    [symbol |-> Samsung, weight |-> Mills \div 2, price |-> 6, qty_market |-> qty_market,
     qty_limit |-> qty_limit, limit_price |-> 6, cash_needed |-> 0]

SampleOrderPreviewItems ==
    {<<SampleItem(0, 0 - 1)>>, <<SampleItem(2, 3)>>, <<SampleItem(2, 3), SampleItem(0, 3)>>}

OrderExecuteSample(r) == OrderExecuteWith(r, SampleOrderPreviewItems)

(* The caller sends the request of the last execute response once more. *)
OrderExecuteAgain(r) ==
    /\ Start(r, "repeat")
    /\ resp.kind = "execute"
    /\ LET t0 == [IdleTask EXCEPT !.kind = "execute", !.pc = "running",
                                  !.req = resp.req]
       IN  Commit(r, ExecuteLoop(World(t0)))
    /\ UNCHANGED <<now, ticks>>

----------------------------------------------------------------------------
(* kis_client.order_cash called on its own, with either side *)

Sides == {"buy", "sell"}

OrderCallReturn(w) == [w EXCEPT !.task = [@ EXCEPT !.pc = "done"]]

OrderCallAnswered(w, status) ==
    IF status # 200 THEN Fail(OrderAnswered(w, status))
    ELSE OrderCallReturn(OrderAnswered(w, status))

OrderCashCall(r) ==
    /\ Start(r, "order")
    /\ \E side \in Sides, qty \in MarketQtys :
          LET t0 == [IdleTask EXCEPT !.kind = "order", !.pc = "running"]
              w1 == OrderCash(World(t0), Samsung, qty, Literal0, side, "01")
          IN  Commit(r, IF w1.task.pc \in {"await_token", "await_order"}
                        THEN w1 ELSE OrderCallReturn(w1))
    /\ UNCHANGED <<now, ticks>>

(* The order POST answers a suspended order_cash, and its caller goes on. *)
OrderResume(w, status) ==
    IF w.task.kind = "execute" THEN ExecuteOrdered(w, status)
    ELSE OrderCallAnswered(w, status)

OrderResponse(r) ==
    /\ tasks[r].pc = "await_order"
    /\ \E status \in {200, 500} :
          Commit(r, OrderResume(World(tasks[r]), status))
    /\ UNCHANGED <<now, ticks, started>>

----------------------------------------------------------------------------
(* The credential exchange answers a suspended get_access_token, and the   *)
(* handler that called it goes on.                                         *)

TokenResume(w) ==
    IF w.task.kind = "token" THEN ApiTokenResume(w)
    ELSE IF w.task.kind \in {"preview", "weights", "quote"}
    THEN IF w.task.pc = "raised" THEN Fail(w) ELSE QuoteSend(w)
    ELSE IF w.task.pc = "raised"
    THEN ExecuteRaise([w EXCEPT !.task = [@ EXCEPT
             !.calls = [@ EXCEPT ![Len(@)] = [@ EXCEPT !.state = "raised"]]]])
    ELSE OrderSend(w)

TokenResponse(r) ==
    /\ tasks[r].pc = "await_token"
    /\ \E status \in {200, 403}, token \in GatewayTokens :
          /\ (status # 200 => token = "T1")
          /\ Commit(r, TokenResume(TokenAnswered(World(tasks[r]), status, token)))
    /\ UNCHANGED <<now, ticks, started>>

Tick ==
    /\ ticks < MaxTicks
    /\ \E d \in TickSet(client.token_strategy) : now' = now + d
    /\ ticks' = ticks + 1
    /\ UNCHANGED <<client, tasks, net, started, stored, resp>>

NextToken ==
    \/ \E r \in Req : ApiToken(r)
    \/ \E r \in Req : TokenResponse(r)
    \/ Tick

NextPreview ==
    \/ \E r \in Req : OrderPreview(r)
    \/ \E r \in Req : TokenResponse(r)
    \/ \E r \in Req : QuoteResponse(r)
    \/ Tick

NextExecute ==
    \/ \E r \in ExecReq : OrderExecute(r)
    \/ \E r \in Req : TokenResponse(r)
    \/ \E r \in Req : OrderResponse(r)

Next ==
    \/ \E r \in Req : ApiToken(r)
    \/ \E r \in Req : OrderPreview(r)
    \/ \E r \in ExecReq : OrderExecute(r)
    \/ \E r \in Req : TokenResponse(r)
    \/ \E r \in Req : QuoteResponse(r)
    \/ \E r \in Req : OrderResponse(r)
    \/ Tick

Spec == Init /\ [][Next]_vars

SpecToken == Init /\ [][NextToken]_vars

SpecPreview == Init /\ [][NextPreview]_vars

(* The token cache under requests that override nothing. *)
NextRefresh ==
    \/ \E r \in Req : ApiTokenPlain(r)
    \/ \E r \in Req : TokenResponse(r)
    \/ Tick

SpecRefresh == Init /\ [][NextRefresh]_vars

(* Order execution never reads the clock after the token is cached and the
   clock does not advance here, so the TTL strategy is fixed to the default
   of kis_client.py line 32. *)
InitExecute == Init /\ client.token_strategy = "short"

SpecExecute == InitExecute /\ [][NextExecute]_vars

(* The requests received so far are fewer than MaxRequests. *)
Budget ==
    started.token + started.quote + started.weights + started.preview
        + started.execute < MaxRequests

(* A request arrives while the budget lasts. *)
TokenRequest(r) == Budget /\ ApiTokenMode(r)

PlainTokenRequest(r) == Budget /\ ApiTokenPlain(r)

QuoteRequest(r) == Budget /\ QuotesDailySample(r)

WeightsCall(r) == Budget /\ PortfolioWeightsSample(r)

PreviewRequest(r) == Budget /\ OrderPreviewSample(r)

ExecuteRequest(r) == Budget /\ OrderExecuteSample(r)

(* Every endpoint, on a few requests each and MaxRequests requests in all. *)
NextApp ==
    \/ \E r \in Req : TokenRequest(r)
    \/ \E r \in Req : Health(r)
    \/ \E r \in Req : QuoteRequest(r)
    \/ \E r \in Req : WeightsCall(r)
    \/ \E r \in Req : PreviewRequest(r)
    \/ \E r \in ExecReq : ExecuteRequest(r)
    \/ \E r \in Req : TokenResponse(r)
    \/ \E r \in Req : QuoteResponse(r)
    \/ \E r \in Req : OrderResponse(r)

SpecApp == Init /\ [][NextApp]_vars

(* Mock mode: KIS_MOCK=1.  No handler is ever suspended there, so no       *)
(* answer of the brokerage is part of the next-state relation.             *)
InitMock == Init /\ client.mock

NextMock ==
    \/ \E r \in Req : TokenRequest(r)
    \/ \E r \in Req : Health(r)
    \/ \E r \in Req : QuoteRequest(r)
    \/ \E r \in Req : WeightsCall(r)
    \/ \E r \in Req : PreviewRequest(r)
    \/ \E r \in ExecReq : ExecuteRequest(r)
    \/ Tick

SpecMock == InitMock /\ [][NextMock]_vars

(* Every endpoint but execute. *)
NextLookups ==
    \/ \E r \in Req : TokenRequest(r)
    \/ \E r \in Req : Health(r)
    \/ \E r \in Req : QuoteRequest(r)
    \/ \E r \in Req : WeightsCall(r)
    \/ \E r \in Req : PreviewRequest(r)
    \/ \E r \in Req : TokenResponse(r)
    \/ \E r \in Req : QuoteResponse(r)

SpecLookups == Init /\ [][NextLookups]_vars

(* The three gateway operations, each through an endpoint that calls it. *)
NextGateway ==
    \/ \E r \in Req : PlainTokenRequest(r)
    \/ \E r \in Req : QuoteRequest(r)
    \/ \E r \in ExecReq : ExecuteRequest(r)
    \/ \E r \in Req : TokenResponse(r)
    \/ \E r \in Req : QuoteResponse(r)
    \/ \E r \in Req : OrderResponse(r)

SpecGateway == Init /\ [][NextGateway]_vars

(* Order execution while token requests change the mode. *)
NextTrade ==
    \/ \E r \in Req : TokenRequest(r)
    \/ \E r \in ExecReq : ExecuteRequest(r)
    \/ \E r \in Req : TokenResponse(r)
    \/ \E r \in Req : OrderResponse(r)

SpecTrade == Init /\ [][NextTrade]_vars

(* order_cash called on its own under either mode. *)
NextOrderCash ==
    \/ \E r \in Req : ApiTokenMode(r)
    \/ \E r \in Req : OrderCashCall(r)
    \/ \E r \in Req : TokenResponse(r)
    \/ \E r \in Req : OrderResponse(r)

SpecOrderCash == InitExecute /\ [][NextOrderCash]_vars

(* The quote endpoint. *)
NextQuote ==
    \/ \E r \in Req : QuotesDaily(r)
    \/ \E r \in Req : TokenResponse(r)
    \/ \E r \in Req : QuoteResponse(r)

SpecQuote == InitExecute /\ [][NextQuote]_vars

(* Executes by one caller, each sent once more. *)
NextRepeat ==
    \/ \E r \in ExecReq : OrderExecuteSample(r)
    \/ \E r \in ExecReq : OrderExecuteAgain(r)
    \/ \E r \in Req : TokenResponse(r)
    \/ \E r \in Req : OrderResponse(r)

SpecRepeat == InitExecute /\ [][NextRepeat]_vars

----------------------------------------------------------------------------
(* Properties *)

(* Every frame there is: the running handlers and the last response. *)
Frames == {tasks[r] : r \in Req} \cup {resp}

Previewed == resp.kind = "preview" /\ resp.pc = "done"

(* C1: concurrent callers that find the cached token missing or expired    *)
(* cause one credential exchange: no caller starts an exchange while       *)
(* another caller's exchange is in flight.                                 *)
C1_SingleRefreshInFlight ==
    Cardinality({r \in Req : tasks[r].pc = "await_token"}) <= 1

(* C2: a get_access_token call made strictly before the expiry of a pair   *)
(* that an earlier successful acquisition stored returns that very pair    *)
(* from the cache.                                                         *)
C2_HitReturnsAcquiredPair ==
    \A f \in Frames :
        \A p \in f.prior :
            f.how \in {"hit", "exchange", "mock"} => (f.how = "hit" /\ f.ret = p)

(* C3: total_cash_needed of a preview response is at most the total_cash   *)
(* of its request.                                                         *)
C3_TotalWithinTotalCash ==
    Previewed => resp.body.total_cash_needed <= resp.req.total_cash

(* C4: the sized quantities of a preview item never cost more than the     *)
(* cash allotted to the symbol: qty_market*price <= initial_buy_cash,      *)
(* qty_limit*limit_price <= dca_cash, cash_needed <= their sum.            *)
C4_WithinAllottedCash ==
    Previewed =>
        \A j \in 1..Len(resp.body.items) :
            LET it == resp.body.items[j]
                r == resp.req.results[j]
            IN  /\ it.qty_market * it.price <= r.initial_buy_cash
                /\ it.qty_limit * it.limit_price <= r.dca_cash
                /\ it.cash_needed <= r.initial_buy_cash + r.dca_cash

(* C5: qty_market is floor(initial_buy_cash / price) when price > 0 and 0  *)
(* otherwise, qty_limit is floor(dca_cash / limit_price_hint) when the     *)
(* hint is > 0 and 0 otherwise, and neither is negative.                   *)
C5_FloorQuantities ==
    Previewed =>
        \A j \in 1..Len(resp.body.items) :
            LET it == resp.body.items[j]
                r == resp.req.results[j]
            IN  /\ it.qty_market =
                      IF it.price > 0 THEN r.initial_buy_cash \div it.price ELSE 0
                /\ it.qty_limit =
                      IF r.limit_price_hint > 0
                      THEN r.dca_cash \div r.limit_price_hint ELSE 0
                /\ it.qty_market >= 0
                /\ it.qty_limit >= 0

RECURSIVE SumCashNeeded(_)
SumCashNeeded(items) ==
    IF items = <<>> THEN 0
    ELSE SumCashNeeded(SubSeq(items, 1, Len(items) - 1)) + items[Len(items)].cash_needed

(* C6: cash_needed of every preview item is qty_market*price +             *)
(* qty_limit*limit_price rounded to two decimals, and total_cash_needed is *)
(* the sum of the cash_needed of the returned items.                       *)
C6_CashReconciles ==
    Previewed =>
        /\ \A j \in 1..Len(resp.body.items) :
               LET it == resp.body.items[j]
               IN  it.cash_needed =
                       Round2(it.qty_market * it.price + it.qty_limit * it.limit_price)
        /\ resp.body.total_cash_needed = SumCashNeeded(resp.body.items)

(* C7: a preview is never aborted by a price lookup: its response holds    *)
(* one item per requested symbol, in order, and an item whose price is     *)
(* zero or unavailable has qty_market = 0.                                 *)
C7_BadQuoteTolerated ==
    resp.kind = "preview" =>
        /\ resp.pc = "done"
        /\ Len(resp.body.items) = Len(resp.req.results)
        /\ \A j \in 1..Len(resp.body.items) :
               /\ resp.body.items[j].symbol = resp.req.results[j].symbol
               /\ (resp.body.items[j].price = 0 => resp.body.items[j].qty_market = 0)

(* The orders the items of an execute request call for, in order. *)
RECURSIVE ExpectedOrders(_)
ExpectedOrders(items) ==
    IF items = <<>> THEN <<>>
    ELSE LET item == items[1]
             market == IF item.qty_market > 0
                       THEN <<[pdno |-> item.symbol, qty |-> item.qty_market,
                               price |-> Literal0, side |-> "buy", ord_dvsn |-> "01",
                               order_type |-> "market", result_price |-> 0]>>
                       ELSE <<>>
             limit == IF item.qty_limit > 0
                      THEN <<[pdno |-> item.symbol, qty |-> item.qty_limit,
                              price |-> Str(item.limit_price), side |-> "buy",
                              ord_dvsn |-> "00", order_type |-> "limit",
                              result_price |-> item.limit_price]>>
                      ELSE <<>>
         IN  market \o limit \o ExpectedOrders(Tail(items))

SameOrder(call, e) ==
    /\ call.pdno = e.pdno
    /\ call.qty = e.qty
    /\ call.price = e.price
    /\ call.side = e.side
    /\ call.ord_dvsn = e.ord_dvsn

SameResult(res, call, e) ==
    /\ res.symbol = e.pdno
    /\ res.order_type = e.order_type
    /\ res.qty = e.qty
    /\ res.price = e.result_price
    /\ res.response = call.response

(* C8: the order_cash calls of an execute are, in order, a market buy      *)
(* (price "0", kind "01") for each item with qty_market > 0 followed by a  *)
(* limit buy at limit_price (kind "00") if qty_limit > 0: at any moment    *)
(* the calls made are the first of these, every call is a buy of a         *)
(* quantity > 0, and a call that returns has made them all, with one       *)
(* result per call in the same order.                                      *)
C8_ExecuteSubmitsPositiveTranches ==
    \A f \in Frames :
        f.kind = "execute" =>
            LET exp == ExpectedOrders(f.req.items)
                res == IF f.pc = "done" THEN f.body.results ELSE f.results
            IN  /\ Len(f.calls) <= Len(exp)
                /\ \A j \in 1..Len(f.calls) :
                       /\ SameOrder(f.calls[j], exp[j])
                       /\ f.calls[j].qty > 0
                       /\ f.calls[j].side = "buy"
                /\ f.pc = "done" =>
                       /\ Len(f.calls) = Len(exp)
                       /\ Len(res) = Len(exp)
                       /\ \A j \in 1..Len(res) : SameResult(res[j], f.calls[j], exp[j])
                /\ f.pc \notin {"done", "failed", "idle"} =>
                       /\ Len(res) <= Len(f.calls)
                       /\ \A j \in 1..Len(res) : SameResult(res[j], f.calls[j], exp[j])

C8_Witness ==
    /\ resp.kind = "execute"
    /\ resp.pc = "done"
    /\ ~client.mock
    /\ Len(resp.req.items) = 2
    /\ resp.req.items[1].qty_market = 0
    /\ resp.req.items[1].qty_limit > 0
    /\ Len(resp.calls) = 3

(* C9: an order_cash call that raises ends the execute with an error: it   *)
(* is the last call the handler makes (neither the other tranche of the    *)
(* item nor a later item is submitted, nothing is cancelled or sold), the  *)
(* response is the failure, and a successful response had no failing call. *)
C9_FailureAbortsBatch ==
    \A f \in Frames :
        f.kind = "execute" =>
            /\ \A j \in 1..Len(f.calls) :
                   /\ f.calls[j].side = "buy"
                   /\ f.calls[j].state = "raised" => (j = Len(f.calls) /\ f.pc = "failed")
                   /\ f.calls[j].state = "pending" =>
                          (j = Len(f.calls) /\ f.pc \in {"await_token", "await_order"})
            /\ f.pc = "failed" =>
                   (f.calls # <<>> /\ f.calls[Len(f.calls)].state = "raised")

C9_Witness ==
    /\ resp.kind = "execute"
    /\ resp.pc = "failed"
    /\ Len(resp.calls) = 2
    /\ resp.calls[1].state = "returned"
    /\ resp.calls[2].state = "raised"
    /\ Len(ExpectedOrders(resp.req.items)) > 2

(* C10: a token request that changes the keys or the mode does not get the *)
(* token cached under the previous keys or mode but a new one, here in     *)
(* live mode, where a new one comes from a credential exchange.            *)
C10_ChangeRefreshes ==
    (resp.kind = "token" /\ resp.pc = "done" /\ resp.changed /\ ~client.mock)
        => resp.how = "exchange"

(* The exchange that task r awaits is answered in this step. *)
ExchangeAnswered(r) == tasks[r].pc = "await_token" /\ tasks'[r] # tasks[r]

(* C11: when the credential exchange of a live cache miss answers with a   *)
(* non-success status, get_access_token raises an error that carries the   *)
(* upstream status, and that step leaves the stored token and expiry as    *)
(* they were: nothing is stored.  An exchange that does not fail stores    *)
(* the token it was given.                                                 *)
C11_FailedExchangeStoresNothing ==
    [][\A r \in Req :
          ExchangeAnswered(r) =>
              IF tasks'[r].pc = "idle" /\ resp'.pc = "failed"
              THEN /\ resp'.err.op = "token"
                   /\ resp'.err.status \notin {0, 200}
                   /\ client'.token = client.token
                   /\ client'.expires = client.expires
                   /\ stored' = stored
              ELSE /\ client'.token \in GatewayTokens
                   /\ client'.expires = tasks[r].now0 + TtlHours(client.token_strategy) - 1
                   /\ Pair(client') \in stored']_vars

(* A refresh of an expired token failed, and the expired token is kept. *)
C11_Witness ==
    /\ resp.kind = "token"
    /\ resp.pc = "failed"
    /\ resp.err = HTTPStatusError("token", 403)
    /\ client.token \in GatewayTokens
    /\ ~(now < client.expires)

(* The time the acquisition that acts in this step read at its start: that *)
(* of the suspended call whose exchange is answered, or the present.       *)
AcquisitionTime ==
    IF \E r \in Req : ExchangeAnswered(r)
    THEN tasks[CHOOSE r \in Req : ExchangeAnswered(r)].now0
    ELSE now

(* C12: every refresh sets expires to the time read at the start of that   *)
(* acquisition plus 23 hours under the "short" strategy and plus 2159      *)
(* hours under the "long" one, and the stored expiry is always 23 or 2159  *)
(* hours after a time at which an acquisition may have started.            *)
C12_ExpiryIsStartPlusTtlMinusOne ==
    /\ [](client.expires # DatetimeMin =>
             \/ client.expires - 23 \in StartTime..now
             \/ client.expires - 2159 \in StartTime..now)
    /\ [][Pair(client') # Pair(client) =>
             /\ client.token_strategy = "short" =>
                    client'.expires = AcquisitionTime + 23
             /\ client.token_strategy # "short" =>
                    client'.expires = AcquisitionTime + 2159]_vars

(* A live refresh under the long strategy whose exchange answered after    *)
(* the clock had advanced.                                                 *)
C12_Witness ==
    /\ ~client.mock
    /\ client.token_strategy = "long"
    /\ client.token \in GatewayTokens
    /\ client.expires = StartTime + 2159
    /\ now > StartTime

Waiting == {"await_token", "await_quote", "await_order"}

(* C13: while the mock flag is set nothing is sent to the brokerage and no *)
(* handler waits for it, whatever token, quote, weights, preview and       *)
(* execute requests are served: the token is the local sentinel and every  *)
(* order acknowledgment is the local echo.                                 *)
C13_MockSendsNothing ==
    client.mock =>
        /\ net = NetInit
        /\ \A r \in Req : tasks[r].pc \notin Waiting
        /\ client.token \in {None, "MOCK_TOKEN"}
        /\ (resp.kind = "token" /\ resp.pc = "done") => resp.ret.access_token = "MOCK_TOKEN"
        /\ \A j \in 1..Len(resp.calls) :
               /\ resp.calls[j].state = "returned"
               /\ resp.calls[j].response.mock

(* In mock mode a preview was served and an execute has returned the echo  *)
(* of its three orders.                                                    *)
C13_Witness ==
    /\ client.mock
    /\ started.preview = 1
    /\ resp.kind = "execute"
    /\ resp.pc = "done"
    /\ Len(resp.calls) = 3

(* The inputs C14 calls malformed or out of range. *)
MalformedWeights(req) ==
    \/ req.total_cash <= 0
    \/ req.items = <<>>
    \/ ~(0 < req.initial_buy_ratio /\ req.initial_buy_ratio < Mills)
    \/ ~(0 <= req.discount_rate /\ req.discount_rate < Mills)

MalformedPreview(req) ==
    \/ req.total_cash <= 0
    \/ \E j \in 1..Len(req.results) :
           \/ req.results[j].initial_buy_cash < 0
           \/ req.results[j].dca_cash < 0
           \/ req.results[j].limit_price_hint < 0

(* C14: a weights or preview request with malformed or out-of-range input  *)
(* is rejected with a validation error, and no handler serving one ever    *)
(* waits for the brokerage or returns a result.                            *)
C14_MalformedRejectedFirst ==
    \A f \in Frames :
        /\ (f.kind = "weights" /\ MalformedWeights(f.req)) =>
               (f.pc = "rejected" /\ f.err = LocalError("ValidationError"))
        /\ (f.kind = "preview" /\ MalformedPreview(f.req)) =>
               (f.pc = "rejected" /\ f.err = LocalError("ValidationError"))

(* The transaction-type codes of the brokerage, by mode and side. *)
TransactionCode(mode, side) ==
    IF mode = "real" /\ side = "buy" THEN <<"TTTC", "0802U">>
    ELSE IF mode = "real" /\ side = "sell" THEN <<"TTTC", "0801U">>
    ELSE IF mode = "virtual" /\ side = "buy" THEN <<"VTTC", "0802U">>
    ELSE <<"VTTC", "0801U">>

OrderCalls == UNION {{f.calls[j] : j \in 1..Len(f.calls)} : f \in {g \in Frames : g.kind = "order"}}

(* C15: every order_cash call carries the code of its (mode, side), the    *)
(* four codes differ, and in mock mode the call has returned the           *)
(* instruction it built (code, symbol, quantity, price, order kind) and    *)
(* nothing has been sent to the brokerage.                                 *)
C15_CodeByModeAndSide ==
    /\ Cardinality({TrId(mode, side) : mode \in Modes, side \in Sides}) = 4
    /\ \A c \in OrderCalls :
          /\ c.mode \in Modes
          /\ c.tr_id = TransactionCode(c.mode, c.side)
          /\ client.mock =>
                /\ c.state = "returned"
                /\ c.response.mock
                /\ c.response.tr_id = TransactionCode(c.mode, c.side)
                /\ c.response.body.PDNO = c.pdno
                /\ c.response.body.ORD_QTY = StrInt(c.qty)
                /\ c.response.body.ORD_UNPR = c.price
                /\ c.response.body.ORD_DVSN = c.ord_dvsn
    /\ client.mock => net.order = 0

C15_Witness ==
    /\ client.mock
    /\ resp.kind = "order" /\ resp.pc = "done" /\ Len(resp.calls) = 1
    /\ resp.calls[1].side = "sell" /\ resp.calls[1].mode = "real"
    /\ resp.calls[1].qty = 2
    /\ resp.calls[1].response.tr_id = <<"TTTC", "0801U">>


(* The symbol ends in two digits. *)
EndsInTwoDigits(symbol) ==
    /\ Len(symbol) >= 2
    /\ IsDigit(symbol[Len(symbol) - 1])
    /\ IsDigit(symbol[Len(symbol)])

(* 50000 + 10 * d, d the number the two last digits spell *)
ExpectedMockPrice(symbol) ==
    LET d == 10 * DigitVal(symbol[Len(symbol) - 1]) + DigitVal(symbol[Len(symbol)])
    IN  (50000 + 10 * d) * Mills

(* C16: in mock mode the quote of a symbol ending in the digits d is one   *)
(* price whose open, high, low and close are 50000 + 10*d and whose volume *)
(* is 0, whatever was called before; "005930" gives 50300.                 *)
C16_MockQuoteFromLastTwoDigits ==
    /\ MockPrice(Samsung) = 50300 * Mills
    /\ \A a, b \in 1..10 :
          MockPrice(<<"A", Digits[a], Digits[b]>>)
              = (50000 + 10 * (10 * (a - 1) + (b - 1))) * Mills
    /\ (client.mock /\ resp.kind = "quote" /\ EndsInTwoDigits(resp.req.symbol)) =>
           /\ resp.pc = "done"
           /\ Len(resp.body.prices) = 1
           /\ LET p == resp.body.prices[1]
                  e == ExpectedMockPrice(resp.req.symbol)
              IN  /\ p.open = e /\ p.high = e /\ p.low = e /\ p.close = e
                  /\ p.volume = 0
                  /\ resp.req.symbol = Samsung => p.close = 50300 * Mills
                  /\ resp.req.symbol = Hynix => p.close = 50600 * Mills

C16_Witness ==
    /\ client.mock /\ started.quote = 2
    /\ resp.kind = "quote" /\ resp.pc = "done" /\ resp.req.symbol = Samsung
    /\ resp.body.prices = <<[open |-> 50300 * Mills, high |-> 50300 * Mills,
                             low |-> 50300 * Mills, close |-> 50300 * Mills,
                             volume |-> 0]>>


(* This step ends an execute with a result: a suspended handler returns,   *)
(* or a request is served within the step.                                 *)
ExecuteReturns ==
    /\ resp'.kind = "execute" /\ resp'.pc = "done"
    /\ \/ \E r \in Req : tasks[r].kind = "execute" /\ tasks'[r].pc = "idle"
                            /\ tasks'[r] # tasks[r]
       \/ started' # started /\ tasks' = tasks

(* Handler r sends an order to the brokerage in this step. *)
Submits(r) == tasks'[r].pc = "await_order" /\ tasks'[r] # tasks[r]

(* C17: an execute that returns after an execute of the same items has     *)
(* returned has made the same order_cash calls again, one per positive     *)
(* tranche and each of them answered, and returns the same results; every  *)
(* call that reaches the brokerage is one more order there.                *)
C17_RepeatedExecuteResubmits ==
    [][/\ (ExecuteReturns /\ resp.kind = "execute" /\ resp.pc = "done"
                          /\ resp.req.items = resp'.req.items) =>
              /\ Len(resp'.calls) = Len(ExpectedOrders(resp'.req.items))
              /\ Len(resp'.calls) = Len(resp.calls)
              /\ \A j \in 1..Len(resp'.calls) :
                     /\ SameOrder(resp'.calls[j], resp.calls[j])
                     /\ resp'.calls[j].tr_id = resp.calls[j].tr_id
                     /\ resp'.calls[j].state = "returned"
                     /\ resp'.calls[j].response = resp.calls[j].response
              /\ resp'.body = resp.body
       /\ net'.order = net.order + Cardinality({r \in Req : Submits(r)})]_vars

C17_Witness ==
    /\ ~client.mock
    /\ started.execute = 1 /\ started.repeat = 1
    /\ resp.kind = "execute" /\ resp.pc = "done"
    /\ Len(resp.calls) = 3
    /\ net.order = 6
    /\ \A r \in Req : tasks[r].pc = "idle"


(* The HTTP call handler r waits for is answered in this step. *)
Answered(r, pc) == tasks[r].pc = pc /\ tasks'[r] # tasks[r]

(* Handler r ends in this step, and resp' is its response. *)
Ended(r) == tasks'[r].pc = "idle" /\ tasks'[r] # tasks[r]

(* C18: no gateway operation sends its request again.  The answer to a     *)
(* credential exchange, a price lookup or an order ends that call: if it   *)
(* is not a success the handler ends with the error of that answer and     *)
(* nothing more is sent, and what a handler that goes on sends next is the *)
(* request of its next call.  No running handler holds a raised error.     *)
C18_NoRetry ==
    [][\A r \in Req :
          /\ tasks'[r].err = NoErr
          /\ Answered(r, "await_token") =>
                /\ net'.token = net.token
                /\ tasks'[r].pc # "await_token"
                /\ net'.quote + net'.order <= net.quote + net.order + 1
                /\ Ended(r) => net' = net
                /\ (Ended(r) /\ resp'.pc = "failed") =>
                       resp'.err = HTTPStatusError("token", 403)
          /\ Answered(r, "await_quote") =>
                /\ net'.order = net.order
                /\ net'.quote <= net.quote + 1
                /\ tasks'[r].pc = "await_quote" =>
                       (net'.quote = net.quote + 1 /\ tasks'[r].i = tasks[r].i + 1)
                /\ Ended(r) => net' = net
                /\ (Ended(r) /\ resp'.pc = "failed") =>
                       resp'.err \in {HTTPStatusError("quote", 500),
                                      LocalError("TypeError"), LocalError("IndexError")}
          /\ Answered(r, "await_order") =>
                /\ net'.quote = net.quote
                /\ net'.order <= net.order + 1
                /\ ~Ended(r) =>
                       /\ Len(tasks'[r].calls) = Len(tasks[r].calls) + 1
                       /\ tasks'[r].calls[Len(tasks[r].calls)].state = "returned"
                       /\ tasks'[r].pc = "await_order" => net'.order = net.order + 1
                /\ Ended(r) => net' = net
                /\ (Ended(r) /\ resp'.pc = "failed") =>
                       /\ resp'.err = HTTPStatusError("order", 500)
                       /\ resp'.calls[Len(resp'.calls)].state = "raised"
                       /\ Len(resp'.calls) = Len(tasks[r].calls)]_vars

C18_Witness ==
    /\ ~client.mock
    /\ resp.kind = "execute" /\ resp.pc = "failed"
    /\ resp.err = HTTPStatusError("order", 500)
    /\ Len(resp.calls) = 2
    /\ net.order = 2 /\ net.token = 1
    /\ started.quote = 0 /\ started.token = 0


(* C19: the orders of one execute all carry the transaction-code prefix of *)
(* one mode, whatever token requests do meanwhile: no batch holds both a   *)
(* TTTC and a VTTC code.                                                   *)
C19_BatchKeepsItsMode ==
    \A f \in Frames :
        f.kind = "execute" =>
            \A j, k \in 1..Len(f.calls) :
                /\ f.calls[j].tr_id[1] = f.calls[k].tr_id[1]
                /\ f.calls[j].mode = f.calls[k].mode


(* C20: whatever token, health, quote, weights and preview requests are    *)
(* served, no order is sent to the brokerage, no handler has called        *)
(* order_cash and none waits for the answer to an order.                   *)
C20_OnlyExecuteOrders ==
    /\ net.order = 0
    /\ \A f \in Frames :
          /\ f.kind \in {"none", "token", "health", "quote", "weights", "preview"}
          /\ f.calls = <<>>
          /\ f.pc # "await_order"
          /\ f.results = <<>> /\ f.body.results = <<>>

C20_Witness ==
    /\ ~client.mock
    /\ resp.kind = "preview" /\ resp.pc = "done"
    /\ Len(resp.body.items) = 2
    /\ resp.body.items[1].qty_market > 0
    /\ net.quote = 2 /\ net.order = 0


====

